---- MODULE Spec2Model ----
(***************************************************************************)
(* The typing-session engine of src/src/components/TypingTest.tsx: the     *)
(* React component state, its event handlers (handleKeyDown,               *)
(* handleInputChange, handleTestComplete, resetTest, startTest), the timer *)
(* effect and the result record handed to onComplete.                      *)
(*                                                                         *)
(* A handler reads the state of the render it was created in and queues    *)
(* its updates; the updates are applied when the handler returns.  Here a  *)
(* handler is an operator from the state record of its render to the state *)
(* record after its updates; every read inside it is a read of the         *)
(* argument record, as in the closure.  Strings are sequences of           *)
(* one-character strings.  Times are whole seconds of a clock that starts  *)
(* at 0 when the session is (re)initialised; durations handed to the       *)
(* scoring code are in milliseconds, as Date.getTime() gives them.         *)
(***************************************************************************)
EXTENDS Integers, Sequences, FiniteSets, TLC

\* ------------------------------------------------------------- bounds
MaxWord == 2         \* longest word in progress the user types
MaxTyped == 2        \* most entries of typedWordsArray
MaxKeys == 3         \* most counted keydowns
MaxIdleWait == 1     \* seconds the clock may advance before the first key
RenderPasses == 3    \* renders followed after one handler
LongTimeLimit == 2   \* time_limit, in seconds, of the tests left to time out

\* ------------------------------------------------------- program values
TimeLimit == 1       \* selectedTest.time_limit of the tests typed, in seconds
DefaultTimeLimit == 60
SettingsTimeLimit == 60
NaN == -1            \* 0 / 0 in Math.round
Infinity == -2       \* x / 0, x > 0, in Math.round
Null == -3           \* startTime === null
QualifyAccuracy == 85
QualifyTime == 600
QualifyWords == 400

Alphabet == {"a", "b"}
Space == " "
Texts == { <<"a">>, <<"a", Space, "a", "b">> }
Modes == {"full", "word", "disabled"}
ShortcutKeys == {"a"}
\* The keydown events delivered: <<key, ctrlKey || metaKey>>.
KeyEvents == { <<"b", FALSE>>, <<Space, FALSE>>, <<"Tab", FALSE>>, <<"F5", FALSE>>,
               <<"a", TRUE>> }
\* (len is the length of the value of a change event, same whether that
\* value is the value the textarea showed already)
NoEvent == [kind |-> "none", key |-> "", ctrl |-> FALSE, len |-> 0, same |-> FALSE]

VARIABLES
  isActive, isFinished, timeLeft, userInput, currentWordIndex, wrongWords,
  startTime, typedKeystrokes, correctKeystrokes, words, typedWordsArray,
  currentTypingWord, backspaceMode, showSettings,
  timeLimit,    \* selectedTest.time_limit, in seconds
  now,          \* the clock, seconds since the session was initialised
  delivered,    \* the results handed to onComplete, in order
  test_results, \* the rows inserted into the table test_results, in order
  showLeaderboard,
  user,         \* the user supabase.auth.getUser() answers with, Null when signed out
  selectedTestId,  \* selectedTest.id
  insertOutcome,   \* how the insert into test_results ends for this session
  lastEvent,    \* the last event delivered to the component
  exactPos,     \* steps of ExactScript the events so far have followed, -1 once off it
  wrongPos      \* the same for FirstWrongScript

vars == <<isActive, isFinished, timeLeft, userInput, currentWordIndex, wrongWords,
          startTime, typedKeystrokes, correctKeystrokes, words, typedWordsArray,
          currentTypingWord, backspaceMode, showSettings, timeLimit, now, delivered,
          test_results, showLeaderboard, user, selectedTestId, insertOutcome,
          lastEvent, exactPos, wrongPos>>

\* ------------------------------------------------------ string helpers
Min(a, b) == IF a < b THEN a ELSE b

\* String.prototype.lastIndexOf(' ') + 1: the 1-based position of the last
\* space, 0 when there is none.
LastSpace(str) ==
  LET at == {i \in 1..Len(str) : str[i] = Space}
  IN IF at = {} THEN 0 ELSE CHOOSE i \in at : \A j \in at : j <= i

Includes(str, c) == \E i \in 1..Len(str) : str[i] = c

\* String.prototype.substring(from) for a 0-based from
Substring(str, from) == SubSeq(str, from + 1, Len(str))

\* String.prototype.substring(0, n)
Prefix(str, n) == SubSeq(str, 1, Min(n, Len(str)))

\* String.prototype.split(' ')
RECURSIVE Split(_)
Split(str) ==
  LET at == {i \in 1..Len(str) : str[i] = Space}
  IN IF at = {} THEN <<str>>
     ELSE LET i == CHOOSE k \in at : \A j \in at : k <= j
          IN <<SubSeq(str, 1, i - 1)>> \o Split(SubSeq(str, i + 1, Len(str)))

\* words[i] || '' for a 0-based i
WordAt(ws, i) == IF i >= 0 /\ i < Len(ws) THEN ws[i + 1] ELSE <<>>

\* Math.round(num / den) for num >= 0, den >= 0, with the float results of a
\* division by zero
Round(num, den) ==
  IF den = 0 THEN (IF num = 0 THEN NaN ELSE Infinity)
  ELSE (2 * num + den) \div (2 * den)

RECURSIVE SumLen(_)
SumLen(ws) == IF ws = <<>> THEN 0 ELSE Len(ws[1]) + SumLen(Tail(ws))

\* ------------------------------------------------------------ the state
State ==
  [isActive |-> isActive, isFinished |-> isFinished, timeLeft |-> timeLeft,
   userInput |-> userInput, currentWordIndex |-> currentWordIndex,
   wrongWords |-> wrongWords, startTime |-> startTime,
   typedKeystrokes |-> typedKeystrokes, correctKeystrokes |-> correctKeystrokes,
   words |-> words, typedWordsArray |-> typedWordsArray,
   currentTypingWord |-> currentTypingWord, backspaceMode |-> backspaceMode,
   showSettings |-> showSettings, timeLimit |-> timeLimit, now |-> now,
   delivered |-> delivered, test_results |-> test_results,
   showLeaderboard |-> showLeaderboard, user |-> user,
   selectedTestId |-> selectedTestId, insertOutcome |-> insertOutcome]

\* ---------------------------------------------------- typing scenarios
\* A scenario is a sequence of steps: "key" is the keydown of an ordinary
\* key, "space" the keydown of the space key, and a character c the change
\* event that puts c at the end of the textarea value.
CharSteps(w) == [i \in 1..(2 * Len(w)) |-> IF i % 2 = 1 THEN "key" ELSE w[i \div 2]]

RECURSIVE WordsSteps(_)
WordsSteps(ws) ==
  IF ws = <<>> THEN <<>>
  ELSE IF Len(ws) = 1 THEN CharSteps(ws[1])
  ELSE CharSteps(ws[1]) \o <<"space">> \o WordsSteps(Tail(ws))

\* every reference word typed exactly, one space keydown between words
ExactScript(ws) == WordsSteps(ws)

\* the first word typed as WrongWord and committed, the others typed exactly
WrongWord == <<"b">>
FirstWrongScript(ws) == WordsSteps(<<WrongWord>> \o Tail(ws))

\* The position after an event whose step is tok; ticks and clicks in the
\* settings panel are no steps ("") and leave the position.
Follow(pos, script, tok, discarded) ==
  IF tok = "" \/ discarded THEN pos
  ELSE IF pos >= 0 /\ pos < Len(script) /\ script[pos + 1] = tok THEN pos + 1
  ELSE -1

\* The state becomes s.  The record is bound once, so that the handler that
\* computes it is evaluated once for the step.
Commit(s, ev, tok) ==
  \E r \in {s} :
    /\ exactPos' = IF tok = "reset" THEN 0
                   ELSE Follow(exactPos, ExactScript(words), tok, isFinished)
    /\ wrongPos' = IF tok = "reset" THEN 0
                   ELSE Follow(wrongPos, FirstWrongScript(words), tok, isFinished)
    /\ isActive' = r.isActive
    /\ isFinished' = r.isFinished
    /\ timeLeft' = r.timeLeft
    /\ userInput' = r.userInput
    /\ currentWordIndex' = r.currentWordIndex
    /\ wrongWords' = r.wrongWords
    /\ startTime' = r.startTime
    /\ typedKeystrokes' = r.typedKeystrokes
    /\ correctKeystrokes' = r.correctKeystrokes
    /\ words' = r.words
    /\ typedWordsArray' = r.typedWordsArray
    /\ currentTypingWord' = r.currentTypingWord
    /\ backspaceMode' = r.backspaceMode
    /\ showSettings' = r.showSettings
    /\ timeLimit' = r.timeLimit
    /\ now' = r.now
    /\ delivered' = r.delivered
    /\ test_results' = r.test_results
    /\ showLeaderboard' = r.showLeaderboard
    /\ user' = r.user
    /\ selectedTestId' = r.selectedTestId
    /\ insertOutcome' = r.insertOutcome
    /\ lastEvent' = ev

\* What the component finds outside itself when a session completes: who
\* is signed in, the id of the test it was handed, and how the insert ends
\* ("ok": the row is stored; "error": the call answers with insertError;
\* "throws": the awaited call rejects).
CustomTextId == "custom-text"
SignedInUser == 1
Users == {Null, SignedInUser}
TestIds == {"test-1", CustomTextId}
InsertOutcomes == {"ok", "error", "throws"}
Environments == [user : Users, selectedTestId : TestIds, insertOutcome : InsertOutcomes]

\* a signed-in user on a stored test whose rows the table accepts
SavingEnvironment == [user |-> SignedInUser, selectedTestId |-> "test-1", insertOutcome |-> "ok"]

\* the state s in the environment env
In(s, env) ==
  [s EXCEPT !.user = env.user, !.selectedTestId = env.selectedTestId,
            !.insertOutcome = env.insertOutcome]

\* The state of the render that follows the effect on selectedTest: the
\* useState initial values, and words and timeLeft as that effect sets them.
\* (The sessions typed key by key are those of SavingEnvironment.)
Mounted(text, limit, mode) ==
  [isActive |-> FALSE, isFinished |-> FALSE, timeLeft |-> limit,
   userInput |-> <<>>, currentWordIndex |-> 0, wrongWords |-> {},
   startTime |-> Null, typedKeystrokes |-> 0, correctKeystrokes |-> 0,
   words |-> Split(text), typedWordsArray |-> <<>>, currentTypingWord |-> <<>>,
   backspaceMode |-> mode, showSettings |-> TRUE, timeLimit |-> limit,
   now |-> 0, delivered |-> <<>>, test_results |-> <<>>, showLeaderboard |-> FALSE,
   user |-> SavingEnvironment.user, selectedTestId |-> SavingEnvironment.selectedTestId,
   insertOutcome |-> SavingEnvironment.insertOutcome]

\* ------------------------------------------------------------- scoring
\* finalTypedWords of handleTestComplete: the committed words, and the word in
\* progress when it is non-empty and no entry stands at currentWordIndex yet.
FinalTypedWords(c) ==
  IF c.currentTypingWord # <<>> /\ Len(c.typedWordsArray) <= c.currentWordIndex
  THEN Append(c.typedWordsArray, c.currentTypingWord)
  ELSE c.typedWordsArray

\* correctWords counting the typed words that occur anywhere in the reference
CorrectWords_AnyPosition(typed, ws) ==
  Cardinality({i \in 1..Len(typed) : \E j \in 1..Len(ws) : typed[i] = ws[j]})

\* finalTypedWords.filter((word, index) => word === words[index]).length
CorrectWords(typed, ws) ==
  Cardinality({i \in 1..Len(typed) : i <= Len(ws) /\ typed[i] = ws[i]})

\* timeTaken of handleTestComplete, in milliseconds
TimeTakenMs(c) ==
  IF c.startTime # Null THEN (c.now - c.startTime) * 1000
  ELSE (IF c.timeLimit # 0 THEN c.timeLimit ELSE DefaultTimeLimit) * 1000

\* the qualification with both the time and the word threshold demanded
Qualifies_TimeAndWords(ck, tk, ms, n) ==
  /\ (IF tk > 0 THEN ck * 100 ELSE 0) >= QualifyAccuracy * (IF tk > 0 THEN tk ELSE 1)
  /\ (ms >= QualifyTime * 1000 /\ n >= QualifyWords)

\* keystrokeAccuracy >= 85 && (timeTaken >= 600 || finalTypedWords.length >= 400)
Qualifies(ck, tk, ms, n) ==
  /\ (IF tk > 0 THEN ck * 100 ELSE 0) >= QualifyAccuracy * (IF tk > 0 THEN tk ELSE 1)
  /\ (ms >= QualifyTime * 1000 \/ n >= QualifyWords)

\* The results object of handleTestComplete, computed from the state c the
\* callback closed over.  Percentages are in hundredths (6667 is 66.67).
TestResults(c) ==
  LET final == FinalTypedWords(c)
      n == Len(final)
      cw == CorrectWords(final, c.words)
      ms == TimeTakenMs(c)
  IN [wpm |-> Round(cw * 60000, ms),
      grossWpm |-> Round(n * 60000, ms),
      accuracy |-> IF n > 0 THEN Round(cw * 10000, n) ELSE 0,
      totalWords |-> Len(c.words),
      typedWords |-> n,
      correctWords |-> cw,
      incorrectWords |-> n - cw,
      typedKeystrokes |-> c.typedKeystrokes,
      correctKeystrokes |-> c.correctKeystrokes,
      keystrokeAccuracy |->
        IF c.typedKeystrokes > 0 THEN Round(c.correctKeystrokes * 10000, c.typedKeystrokes)
        ELSE 0,
      errors |-> Cardinality(c.wrongWords),
      timeTaken |-> Round(ms, 1000),
      totalTime |-> IF c.timeLimit # 0 THEN c.timeLimit ELSE DefaultTimeLimit,
      typedText |-> c.userInput,
      typedWordsArray |-> final,
      wrongWordIndices |-> c.wrongWords,
      qualifiesForLeaderboard |->
        Qualifies(c.correctKeystrokes, c.typedKeystrokes, ms, n)]

\* The wpm shown while typing, computed at each render with Date.now():
\* (correctKeystrokes / 5) / minutes since startTime.
LiveWpm(s) ==
  IF s.startTime # Null /\ s.correctKeystrokes > 0
  THEN Round(s.correctKeystrokes * 12000, (s.now - s.startTime) * 1000)
  ELSE 0

\* ------------------------------------------------------------ handlers
\* The row handleTestComplete hands to supabase.from('test_results').insert.
PersistedRow(c, results) ==
  [user_id |-> c.user,
   test_id |-> c.selectedTestId,
   wpm |-> results.wpm,
   gross_wpm |-> results.grossWpm,
   accuracy |-> results.accuracy,
   total_words |-> results.totalWords,
   typed_words |-> results.typedWords,
   correct_words_count |-> results.correctWords,
   incorrect_words |-> results.incorrectWords,
   correct_keystrokes |-> results.correctKeystrokes,
   wrong_keystrokes |-> results.typedKeystrokes - results.correctKeystrokes,
   errors |-> results.errors,
   time_taken |-> results.timeTaken]

\* The filter of get_leaderboard and of the top-users export on a row:
\* accuracy >= 85 AND (time_taken >= 600 OR COALESCE(total_words, 0) >= 400).
\* (accuracy is in hundredths.)
PassesLeaderboardFilter(row) ==
  /\ row.accuracy >= QualifyAccuracy * 100
  /\ (row.time_taken >= QualifyTime \/ row.total_words >= QualifyWords)

\* the body of handleTestComplete opening the leaderboard without looking at
\* insertError
Completion_IgnoresInsertError(c, t) ==
  CHOOSE out \in
    { [q EXCEPT !.isActive = FALSE,
                !.isFinished = TRUE,
                !.test_results =
                  IF saves /\ p.insertOutcome = "ok"
                  THEN Append(@, PersistedRow(p, results)) ELSE @,
                !.showLeaderboard =
                  IF saves /\ p.insertOutcome # "throws" /\ results.qualifiesForLeaderboard
                  THEN TRUE ELSE @,
                !.delivered = Append(@, results)] :
      p \in {c}, q \in {t}, results \in {TestResults(c)},
      saves \in {c.user # Null /\ c.selectedTestId # CustomTextId} } : TRUE

\* The body of handleTestComplete below its guard: the state updates, the
\* insert when a user is signed in and the test is not the custom text, the
\* leaderboard when the insert answered without error and the session
\* qualifies, and onComplete(results) whatever happened before it.
\* (The closure p, the queued updates q and the results are bound once.)
Completion(c, t) ==
  CHOOSE out \in
    { [q EXCEPT !.isActive = FALSE,
                !.isFinished = TRUE,
                !.test_results =
                  IF saves /\ p.insertOutcome = "ok"
                  THEN Append(@, PersistedRow(p, results)) ELSE @,
                !.showLeaderboard =
                  IF saves /\ p.insertOutcome = "ok" /\ results.qualifiesForLeaderboard
                  THEN TRUE ELSE @,
                !.delivered = Append(@, results)] :
      p \in {c}, q \in {t}, results \in {TestResults(c)},
      saves \in {c.user # Null /\ c.selectedTestId # CustomTextId} } : TRUE

\* handleTestComplete without its isFinished guard
HandleTestComplete_NoGuard(c, t) == Completion(c, t)

\* handleTestComplete as created in the render with state c, its updates
\* applied on top of t (the updates the calling handler has already queued).
HandleTestComplete(c, t) ==
  IF c.isFinished THEN t ELSE Completion(c, t)

StartTimer(s) ==
  IF ~s.isActive /\ ~s.isFinished /\ s.startTime = Null
  THEN [s EXCEPT !.isActive = TRUE, !.startTime = s.now]
  ELSE s

\* the space branch advancing to the next word without committing the typed one
SpaceKey_NoCommit(s, t) ==
  IF s.currentWordIndex < Len(s.words) - 1
  THEN [t EXCEPT !.currentWordIndex = @ + 1,
                 !.currentTypingWord = <<>>,
                 !.userInput = Append(@, Space)]
  ELSE [t EXCEPT !.typedWordsArray = Append(@, s.currentTypingWord)]

\* The space branch of handleKeyDown: reads the render state s, queues its
\* updates on t.
SpaceKey(s, t) ==
  LET expectedWord == WordAt(s.words, s.currentWordIndex)
      typedWord == s.currentTypingWord
      t1 == [t EXCEPT !.typedWordsArray = Append(@, typedWord)]
      t2 == IF typedWord # expectedWord
            THEN [t1 EXCEPT !.wrongWords = @ \cup {s.currentWordIndex}]
            ELSE [t1 EXCEPT !.correctKeystrokes = @ + Len(typedWord) + 1]
  IN IF s.currentWordIndex < Len(s.words) - 1
     THEN [t2 EXCEPT !.currentWordIndex = @ + 1,
                     !.currentTypingWord = <<>>,
                     !.userInput = Append(@, Space)]
     ELSE t2

\* handleKeyDown starting the timer on Ctrl/Meta-modified keys as well
HandleKeyDown_ModifierStarts(s, key, ctrl) ==
  LET s1 == IF ~s.isActive /\ ~s.isFinished /\ key # "Tab"
            THEN StartTimer(s) ELSE s
      blocked == /\ s.isActive \/ s.isFinished
                 /\ (ctrl /\ key \in ShortcutKeys) \/ key = "F5"
      s2 == IF s.isActive THEN [s1 EXCEPT !.typedKeystrokes = @ + 1] ELSE s1
  IN IF blocked THEN s1
     ELSE IF key = Space THEN SpaceKey(s, s2)
     ELSE s2

HandleKeyDown(s, key, ctrl) ==
  LET s1 == IF ~s.isActive /\ ~s.isFinished /\ key # "Tab" /\ ~ctrl
            THEN StartTimer(s) ELSE s
      blocked == /\ s.isActive \/ s.isFinished
                 /\ (ctrl /\ key \in ShortcutKeys) \/ key = "F5"
      s2 == IF s.isActive THEN [s1 EXCEPT !.typedKeystrokes = @ + 1] ELSE s1
  IN IF blocked THEN s1
     ELSE IF key = Space THEN SpaceKey(s, s2)
     ELSE s2

\* the gate with the disabled mode not checked
DeletionAllowed_DisabledIgnored(mode, input, value) ==
  IF Len(value) < Len(input) /\ mode = "word"
  THEN ~(Len(value) < LastSpace(input))
  ELSE TRUE

\* the gate with the word boundary off by one (<= for <)
DeletionAllowed_WordOffByOne(mode, input, value) ==
  IF Len(value) < Len(input)
  THEN CASE mode = "disabled" -> FALSE
         [] mode = "word" -> ~(Len(value) <= LastSpace(input))
         [] OTHER -> TRUE
  ELSE TRUE

\* The backspace gate of handleInputChange: TRUE when the change is let through.
DeletionAllowed(mode, input, value) ==
  IF Len(value) < Len(input)
  THEN CASE mode = "disabled" -> FALSE
         [] mode = "word" -> ~(Len(value) < LastSpace(input))
         [] OTHER -> TRUE
  ELSE TRUE

\* correctCount added to the counter instead of replacing it
CorrectCount_Incremental(s, currentWord) ==
  LET expectedWord == WordAt(s.words, s.currentWordIndex)
      okChars == {i \in 1..Min(Len(currentWord), Len(expectedWord)) :
                    currentWord[i] = expectedWord[i]}
  IN s.correctKeystrokes + Cardinality(okChars)

\* correctCount and newWrongWords of handleInputChange for the word in
\* progress currentWord, recomputed from the committed words of the render.
CorrectCount(s, currentWord) ==
  LET expectedWord == WordAt(s.words, s.currentWordIndex)
      okWords == {i \in 1..Len(s.typedWordsArray) :
                    s.typedWordsArray[i] = WordAt(s.words, i - 1)}
      okChars == {i \in 1..Min(Len(currentWord), Len(expectedWord)) :
                    currentWord[i] = expectedWord[i]}
  IN SumLen([i \in 1..Len(s.typedWordsArray) |->
               IF i \in okWords THEN Append(s.typedWordsArray[i], Space) ELSE <<>>])
     + Cardinality(okChars)

\* newWrongWords without the loop over the committed words
NewWrongWords_CurrentOnly(s, currentWord) ==
  LET expectedWord == WordAt(s.words, s.currentWordIndex)
  IN IF Len(currentWord) > 0 /\ currentWord # Prefix(expectedWord, Len(currentWord))
     THEN {s.currentWordIndex} ELSE {}

NewWrongWords(s, currentWord) ==
  LET expectedWord == WordAt(s.words, s.currentWordIndex)
  IN {i - 1 : i \in {j \in 1..Len(s.typedWordsArray) :
                       s.typedWordsArray[j] # WordAt(s.words, j - 1)}}
     \cup (IF Len(currentWord) > 0 /\ currentWord # Prefix(expectedWord, Len(currentWord))
           THEN {s.currentWordIndex} ELSE {})

\* handleInputChange recomputing currentWordIndex from the delimiters left in
\* the typed text
HandleInputChange_IndexFromText(s, value) ==
  IF Includes(value, Space) /\ ~Includes(s.userInput, Space) THEN s
  ELSE IF ~DeletionAllowed(s.backspaceMode, s.userInput, value) THEN s
  ELSE
    LET currentWord == Substring(value, LastSpace(value))
        t == [s EXCEPT !.userInput = value,
                       !.currentTypingWord = currentWord,
                       !.currentWordIndex =
                          Cardinality({i \in 1..Len(value) : value[i] = Space}),
                       !.correctKeystrokes = CorrectCount(s, currentWord),
                       !.wrongWords = NewWrongWords(s, currentWord)]
    IN IF s.currentWordIndex >= Len(s.words) - 1
          /\ currentWord = WordAt(s.words, s.currentWordIndex)
       THEN HandleTestComplete(s, t)
       ELSE t

\* handleInputChange dropping the committed entries whose delimiter a
\* deletion has removed
HandleInputChange_TrimCommitted(s, value) ==
  IF Includes(value, Space) /\ ~Includes(s.userInput, Space) THEN s
  ELSE IF ~DeletionAllowed(s.backspaceMode, s.userInput, value) THEN s
  ELSE
    LET currentWord == Substring(value, LastSpace(value))
        kept == Min(Len(s.typedWordsArray),
                    Cardinality({i \in 1..Len(value) : value[i] = Space}))
        t == [s EXCEPT !.userInput = value,
                       !.currentTypingWord = currentWord,
                       !.typedWordsArray = SubSeq(@, 1, kept),
                       !.correctKeystrokes = CorrectCount(s, currentWord),
                       !.wrongWords = NewWrongWords(s, currentWord)]
    IN IF s.currentWordIndex >= Len(s.words) - 1
          /\ currentWord = WordAt(s.words, s.currentWordIndex)
       THEN HandleTestComplete(s, t)
       ELSE t

HandleInputChange(s, value) ==
  IF Includes(value, Space) /\ ~Includes(s.userInput, Space) THEN s
  ELSE IF ~DeletionAllowed(s.backspaceMode, s.userInput, value) THEN s
  ELSE
    LET currentWord == Substring(value, LastSpace(value))
        expectedWord == WordAt(s.words, s.currentWordIndex)
        t == [s EXCEPT !.userInput = value,
                       !.currentTypingWord = currentWord,
                       !.correctKeystrokes = CorrectCount(s, currentWord),
                       !.wrongWords = NewWrongWords(s, currentWord)]
    IN IF s.currentWordIndex >= Len(s.words) - 1 /\ currentWord = expectedWord
       THEN HandleTestComplete(s, t)
       ELSE t

ResetTest(s) ==
  [s EXCEPT !.isActive = FALSE, !.isFinished = FALSE, !.userInput = <<>>,
            !.currentWordIndex = 0, !.wrongWords = {}, !.typedWordsArray = <<>>,
            !.currentTypingWord = <<>>, !.startTime = Null,
            !.typedKeystrokes = 0, !.correctKeystrokes = 0,
            !.showSettings = TRUE, !.timeLeft = s.timeLimit]

\* the timer effect without its timeLeft === 0 branch
TimerEffect_NoCompletion(prev, s) == s

\* The timer effect, deps [isActive, timeLeft]: run after the render that
\* turned prev into s.  The interval it registers is the action Tick; here
\* is its other branch, the call of handleTestComplete at timeLeft === 0.
TimerEffect(prev, s) ==
  IF prev.isActive = s.isActive /\ prev.timeLeft = s.timeLeft THEN s
  ELSE IF s.isActive /\ s.timeLeft > 0 THEN s
  ELSE IF s.timeLeft = 0 THEN HandleTestComplete(s, s)
  ELSE s

\* The renders that follow a handler: the effect runs, and runs again after
\* the render its own updates cause, until a render changes none of its deps.
\* (Each render's state is bound once, as a value: p and q.)
RECURSIVE Render(_, _, _)
Render(prev, s, fuel) ==
  CHOOSE out \in
    { IF TimerEffect(p, q) = q \/ fuel = 0 THEN TimerEffect(p, q)
      ELSE Render(q, TimerEffect(p, q), fuel - 1) : p \in {prev}, q \in {s} } : TRUE

\* The state after construction: the first render shows timeLeft =
\* settings.timeLimit, the effect on selectedTest sets it to the test's
\* time_limit, and the timer effect runs for the render that follows.
Constructed(text, limit, mode) ==
  LET m == Mounted(text, limit, mode)
  IN Render([m EXCEPT !.timeLeft = SettingsTimeLimit], m, RenderPasses)

\* pos is the position in the typing scenarios: 0 for a session that has had
\* no event, -1 for one that is on none of them.
InitFrom(s, pos) ==
  /\ isActive = s.isActive
  /\ isFinished = s.isFinished
  /\ timeLeft = s.timeLeft
  /\ userInput = s.userInput
  /\ currentWordIndex = s.currentWordIndex
  /\ wrongWords = s.wrongWords
  /\ startTime = s.startTime
  /\ typedKeystrokes = s.typedKeystrokes
  /\ correctKeystrokes = s.correctKeystrokes
  /\ words = s.words
  /\ typedWordsArray = s.typedWordsArray
  /\ currentTypingWord = s.currentTypingWord
  /\ backspaceMode = s.backspaceMode
  /\ showSettings = s.showSettings
  /\ timeLimit = s.timeLimit
  /\ now = s.now
  /\ delivered = s.delivered
  /\ test_results = s.test_results
  /\ showLeaderboard = s.showLeaderboard
  /\ user = s.user
  /\ selectedTestId = s.selectedTestId
  /\ insertOutcome = s.insertOutcome
  /\ lastEvent = NoEvent
  /\ exactPos = pos
  /\ wrongPos = pos

Init == \E text \in Texts, mode \in Modes : InitFrom(Constructed(text, TimeLimit, mode), 0)

\* ------------------------------------------------------------- actions
\* The values the textarea can hand to onChange from the value it shows: a
\* character put at the end (the space key is suppressed by handleKeyDown and
\* never reaches onChange), the last character of the word in progress
\* replaced, or characters taken from the end.
InputValues(input) ==
  {v \in {Append(input, c) : c \in Alphabet} :
     Len(Substring(v, LastSpace(v))) <= MaxWord}
  \cup {SubSeq(input, 1, k) : k \in 0..(Len(input) - 1)}
  \cup {Append(SubSeq(input, 1, Len(input) - 1), c) :
          c \in (IF input = <<>> \/ input[Len(input)] = Space THEN {} ELSE Alphabet)}

\* The textarea is rendered when the settings panel is not.
TextareaShown == ~showSettings

\* the textarea without its disabled attribute
Deliver_NotDisabled(s, handled) == handled

\* disabled={isFinished} on the textarea: a disabled control hands the event
\* to no handler, and the state stays s; otherwise it becomes handled.
Deliver(s, handled) == IF s.isFinished THEN s ELSE handled

StartTest ==
  /\ showSettings /\ ~isActive /\ ~isFinished
  /\ Commit([State EXCEPT !.showSettings = FALSE],
            [NoEvent EXCEPT !.kind = "start"], "")

\* the backspace mode Select rendered whatever the state of the session
SetBackspaceMode_Anytime(m) ==
  /\ m # backspaceMode
  /\ Commit([State EXCEPT !.backspaceMode = m],
            [NoEvent EXCEPT !.kind = "settings"], "")

SetBackspaceMode(m) ==
  /\ showSettings /\ ~isActive /\ ~isFinished
  /\ m # backspaceMode
  /\ Commit([State EXCEPT !.backspaceMode = m],
            [NoEvent EXCEPT !.kind = "settings"], "")

KeyDown(key, ctrl) ==
  /\ TextareaShown
  /\ typedKeystrokes < MaxKeys
  /\ key = Space => Len(typedWordsArray) < MaxTyped
  /\ Commit(Deliver(State, Render(State, HandleKeyDown(State, key, ctrl), RenderPasses)),
            [NoEvent EXCEPT !.kind = "keydown", !.key = key, !.ctrl = ctrl],
            IF ctrl THEN "other" ELSE IF key = Space THEN "space"
            ELSE IF key \in Alphabet THEN "key" ELSE "other")

InputChange(value) ==
  /\ TextareaShown
  /\ Commit(Deliver(State, Render(State, HandleInputChange(State, value), RenderPasses)),
            [NoEvent EXCEPT !.kind = "change", !.len = Len(value),
                            !.same = (value = userInput)],
            IF value # <<>> /\ value = Append(userInput, value[Len(value)])
            THEN value[Len(value)] ELSE "other")

\* the interval registered whenever timeLeft > 0, active or not
Tick_WhileIdle ==
  /\ timeLeft > 0 /\ ~isFinished
  /\ Commit(Render(State, [State EXCEPT !.timeLeft = timeLeft - 1, !.now = now + 1],
                   RenderPasses),
            [NoEvent EXCEPT !.kind = "tick"], "")

\* The interval callback, registered while isActive && timeLeft > 0.
Tick ==
  /\ isActive /\ timeLeft > 0
  /\ Commit(Render(State, [State EXCEPT !.timeLeft = timeLeft - 1, !.now = now + 1],
                   RenderPasses),
            [NoEvent EXCEPT !.kind = "tick"], "")

\* A second passes with no interval registered and the test not started.
IdleSecond ==
  /\ ~isActive /\ ~isFinished
  /\ now < MaxIdleWait
  /\ Commit([State EXCEPT !.now = now + 1], [NoEvent EXCEPT !.kind = "wait"], "")

\* The Submit Test button, rendered while isActive.
Submit ==
  /\ ~showSettings /\ isActive
  /\ Commit(Render(State, HandleTestComplete(State, State), RenderPasses),
            [NoEvent EXCEPT !.kind = "submit"], "other")

\* The Reset button of the test card.
Reset ==
  /\ ~showSettings /\ ~isFinished
  /\ Commit([Render(State, ResetTest(State), RenderPasses) EXCEPT !.now = 0],
            [NoEvent EXCEPT !.kind = "reset"], "reset")

Next ==
  \/ StartTest
  \/ \E m \in Modes : SetBackspaceMode(m)
  \/ \E e \in KeyEvents : KeyDown(e[1], e[2])
  \/ \E value \in InputValues(userInput) : InputChange(value)
  \/ Tick
  \/ IdleSecond
  \/ Submit
  \/ Reset

Spec == Init /\ [][Next]_vars

\* The events of one session: Next without the Reset button.  The interval
\* of the timer effect fires as long as it is registered.
NextSession ==
  \/ StartTest
  \/ \E m \in Modes : SetBackspaceMode(m)
  \/ \E e \in KeyEvents : KeyDown(e[1], e[2])
  \/ \E value \in InputValues(userInput) : InputChange(value)
  \/ Tick
  \/ IdleSecond
  \/ Submit

\* The typing scenarios are not followed here.
InitTimeout ==
  \E text \in Texts, mode \in Modes :
    InitFrom(Constructed(text, LongTimeLimit, mode), -1)

SpecTimeout == InitTimeout /\ [][NextSession]_vars /\ WF_vars(Tick)

\* ------------------------------------------------- long sessions
\* Sessions long enough for the leaderboard thresholds: a test of n + 1
\* one-letter words with a time limit of QualifyTime seconds, of which n words
\* have been typed and committed, the first k of them as WrongWord; extra is
\* the number of counted keydowns of keys that type nothing (Shift, Tab), and
\* elapsed the seconds since the first keydown.  The first keydown is not
\* counted (HandleKeyDown).
LongTypedCounts == {399, 400, 450}
LongWrongCounts == {0, 11, 45, 60, 67, 68, 90}
LongExtraKeys == {0, 134}
LongElapsed == {598, 599}

LongSession(n, k, extra, elapsed) ==
  LET typed == [i \in 1..n |-> IF i <= k THEN WrongWord ELSE <<"a">>]
  IN [isActive |-> TRUE, isFinished |-> FALSE, timeLeft |-> QualifyTime - elapsed,
      userInput |-> [i \in 1..(2 * n) |->
                      IF i % 2 = 1 THEN typed[(i + 1) \div 2][1] ELSE Space],
      currentWordIndex |-> n,
      wrongWords |-> 0..(k - 1), startTime |-> 0,
      typedKeystrokes |-> 2 * n - 1 + extra, correctKeystrokes |-> 2 * (n - k),
      words |-> [i \in 1..(n + 1) |-> <<"a">>], typedWordsArray |-> typed,
      currentTypingWord |-> <<>>, backspaceMode |-> "full", showSettings |-> FALSE,
      timeLimit |-> QualifyTime, now |-> elapsed, delivered |-> <<>>,
      test_results |-> <<>>, showLeaderboard |-> FALSE,
      user |-> SavingEnvironment.user, selectedTestId |-> SavingEnvironment.selectedTestId,
      insertOutcome |-> SavingEnvironment.insertOutcome]

InitQualify ==
  \E n \in LongTypedCounts, k \in LongWrongCounts, extra \in LongExtraKeys,
     elapsed \in LongElapsed, env \in Environments :
    InitFrom(In(LongSession(n, k, extra, elapsed), env), -1)

\* a long session ends by timeout or by the Submit Test button
NextQualify == Tick \/ Submit

SpecQualify == InitQualify /\ [][NextQualify]_vars

\* ------------------------------------------- invalid configurations
\* Tests whose content is empty or whitespace-only, or whose time_limit is
\* not positive; the component is handed them as it is handed any other.
InvalidTexts == { <<>>, <<Space>> }
InvalidTimeLimits == {0, -1}
InvalidConfigs ==
  (InvalidTexts \X {TimeLimit}) \cup (Texts \X InvalidTimeLimits)

InitConfig ==
  \E cfg \in InvalidConfigs, mode \in Modes :
    InitFrom(Constructed(cfg[1], cfg[2], mode), 0)

SpecConfig == InitConfig /\ [][Next]_vars

\* ============================================================== claims
Running == isActive /\ ~isFinished
LastIndex == Len(words) - 1
\* the start of the word in progress within the typed text
WordStart == Len(userInput) - Len(currentTypingWord)
ResetStep == lastEvent'.kind = "reset"

\* C1 (as stated): while the session is Running the number of committed typed
\* words equals currentWordIndex, also after a space on the last word.
C1_Original == Running => Len(typedWordsArray) = currentWordIndex

\* C1 (amended): while Running every word before currentWordIndex has one
\* committed entry, and the count equals currentWordIndex until a space is
\* pressed on the last reference word, which commits without advancing.
C1_WordCommit ==
  Running =>
    /\ currentWordIndex <= Len(typedWordsArray)
    /\ currentWordIndex < LastIndex => Len(typedWordsArray) = currentWordIndex
    /\ 0 <= currentWordIndex /\ currentWordIndex <= LastIndex

C1_Witness ==
  /\ Running /\ lastEvent.kind = "keydown" /\ lastEvent.key = Space
  /\ currentWordIndex = LastIndex
  /\ Len(typedWordsArray) = currentWordIndex + 1

C3_FinishedIgnoresInput ==
  [][(isFinished /\ lastEvent'.kind \in {"keydown", "change"}) =>
       UNCHANGED <<typedWordsArray, currentWordIndex, currentTypingWord, userInput,
                   wrongWords, typedKeystrokes, correctKeystrokes, startTime>>]_vars

C3_Witness ==
  /\ isFinished /\ Len(delivered) = 1
  /\ lastEvent.kind = "keydown" /\ lastEvent.key = Space

\* C4: completion takes effect at most once per session: at most one result
\* is handed to onComplete, and once the session is Finished no event (a tick
\* at remaining time 0, a final-word completion, a submit) hands over another
\* or changes the one handed over.
C4_CompletionOnce ==
  [][/\ isFinished => delivered' = delivered
     /\ Len(delivered') <= 1
     /\ isFinished' <=> Len(delivered') = 1]_vars

\* the timeout case: the timer effect runs again after the render that made
\* the session Finished, with timeLeft still 0
C4_Witness ==
  /\ isFinished /\ timeLeft = 0 /\ lastEvent.kind = "tick"
  /\ Len(delivered) = 1

C6_WitnessTaken ==
  /\ backspaceMode = "word" /\ Running /\ currentWordIndex = 1
  /\ lastEvent.kind = "change" /\ lastEvent.len = WordStart
  /\ currentTypingWord = <<>> /\ Len(userInput) = lastEvent.len

\* C7: when every reference word has been typed exactly, with one space
\* keydown between the words, in the full backspace mode, the session is
\* Finished and the result reports typedWords = correctWords = the number of
\* reference words, incorrectWords = 0 and accuracy = 100.
C7_ExactTypingScoresFully ==
  (backspaceMode = "full" /\ exactPos = Len(ExactScript(words))) =>
    /\ isFinished
    /\ Len(delivered) = 1
    /\ delivered[1].typedWords = Len(words)
    /\ delivered[1].correctWords = Len(words)
    /\ delivered[1].incorrectWords = 0
    /\ delivered[1].accuracy = 10000

\* the part of C7 the code keeps: the session is Finished by the change
\* that completes the last word
C7_ExactTypingFinishes ==
  exactPos = Len(ExactScript(words)) => isFinished /\ Len(delivered) = 1

\* C8: when the first word was committed with a mismatch and the other words
\* were typed exactly, the result reports wrongWordIndices = {0},
\* correctWords = the number of reference words - 1 and accuracy =
\* correctWords / typedWords * 100 to two decimals.
C8_OneWrongWord ==
  (Len(words) > 1 /\ wrongPos = Len(FirstWrongScript(words))) =>
    /\ isFinished
    /\ Len(delivered) = 1
    /\ delivered[1].wrongWordIndices = {0}
    /\ delivered[1].typedWords = Len(words)
    /\ delivered[1].correctWords = Len(words) - 1
    /\ delivered[1].accuracy = Round(10000 * (Len(words) - 1), Len(words))

\* no key, buffer-change or submit event has reached the session
NoInputYet == exactPos = 0 /\ wrongPos = 0

\* C9 (as stated): with no key or buffer event at all, the session is
\* Finished, with typedWords empty, once the time limit has passed.
C9_Original ==
  (TextareaShown /\ NoInputYet /\ now >= timeLimit) =>
    isFinished /\ typedWordsArray = <<>>

\* C9 (amended): the countdown runs only while the session is Running; with
\* no key, buffer-change or submit event the session stays Idle, with the
\* remaining time at the time limit and typedWords empty, however long it waits.
C9_IdleNeverTimesOut ==
  /\ NoInputYet =>
       /\ ~isActive /\ ~isFinished /\ startTime = Null
       /\ timeLeft = timeLimit /\ typedWordsArray = <<>> /\ delivered = <<>>
  /\ (~isActive /\ ~isFinished) => timeLeft = timeLimit

C9_Witness ==
  TextareaShown /\ NoInputYet /\ now >= timeLimit /\ lastEvent.kind = "wait"

\* C10: a completion computed with no committed word, an empty buffer and no
\* counted keystroke reports wpm, grossWpm, accuracy and keystrokeAccuracy 0
\* and does not qualify for the leaderboard.
C10_ZeroInputZeros ==
  (Len(delivered) = 1 /\ delivered[1].typedWords = 0
   /\ delivered[1].typedKeystrokes = 0) =>
    /\ delivered[1].wpm = 0
    /\ delivered[1].grossWpm = 0
    /\ delivered[1].accuracy = 0
    /\ delivered[1].keystrokeAccuracy = 0
    /\ ~delivered[1].qualifiesForLeaderboard

C11_WitnessBelow ==
  /\ Len(delivered) = 1 /\ ~delivered[1].qualifiesForLeaderboard
  /\ delivered[1].timeTaken = 600 /\ delivered[1].typedWords = 450
  /\ delivered[1].keystrokeAccuracy = 8009

Idle == ~isActive /\ ~isFinished
SessionEvents == {"keydown", "change", "tick", "submit"}

\* C12: a key, buffer-change, tick or submit event changes the session state
\* only from Idle to Running (a keydown) or from Running to Finished (a tick,
\* a submit, a buffer change); Finished is never entered from Idle, and no
\* such event leads out of Finished or back into Running.
C12_StateMachine ==
  [][lastEvent'.kind \in SessionEvents =>
       \/ UNCHANGED <<isActive, isFinished>>
       \/ Idle /\ Running' /\ lastEvent'.kind = "keydown"
       \/ Running /\ isFinished' /\ ~isActive'
            /\ lastEvent'.kind \in {"tick", "submit", "change"}]_vars

\* the part of C12 the code keeps: the same, with Idle to Finished let
\* through for a buffer change
C12_ExceptIdleCompletion ==
  [][lastEvent'.kind \in SessionEvents =>
       \/ UNCHANGED <<isActive, isFinished>>
       \/ Idle /\ Running' /\ lastEvent'.kind = "keydown"
       \/ Running /\ isFinished' /\ ~isActive'
            /\ lastEvent'.kind \in {"tick", "submit", "change"}
       \/ Idle /\ isFinished' /\ ~isActive' /\ lastEvent'.kind = "change"]_vars

\* a keydown handed to handleKeyDown (the textarea is not disabled)
KeyStep == lastEvent'.kind = "keydown" /\ ~isFinished

\* C13 (as stated): startTime is null while the session is Idle, the first
\* keydown that is not Tab sets it in the step that makes the session Running,
\* and no later event of the session changes it.
C13_Original ==
  [][~ResetStep =>
       /\ Idle => startTime = Null
       /\ (Idle /\ KeyStep /\ lastEvent'.key # "Tab") =>
            startTime' = now /\ Running'
       /\ startTime # Null => startTime' = startTime]_vars

\* C13 (amended): startTime is null while the session is Idle; it is set, to
\* the time of the event, by the first keydown that is neither Tab nor
\* Ctrl/Meta-modified, in the step that makes the session Running, and by no
\* other event; no later event of the session changes it.
C13_StartTimeOnce ==
  [][~ResetStep =>
       /\ Idle => startTime = Null
       /\ (Idle /\ KeyStep /\ lastEvent'.key # "Tab" /\ ~lastEvent'.ctrl) =>
            startTime' = now /\ Running'
       /\ startTime' # startTime =>
            /\ Idle /\ KeyStep /\ lastEvent'.key # "Tab" /\ ~lastEvent'.ctrl
            /\ Running'
       /\ startTime # Null => startTime' = startTime]_vars

\* started after a wait, and keys and buffer changes have followed
C13_Witness ==
  /\ Running /\ startTime = MaxIdleWait /\ lastEvent.kind = "change"
  /\ Len(typedWordsArray) = 1 /\ currentTypingWord # <<>>

\* C14: wrongWords holds only indices of words reached so far and of the
\* reference word sequence: it is a subset of 0 .. currentWordIndex.
C14_WrongWithinReached ==
  /\ wrongWords \subseteq 0..currentWordIndex
  /\ wrongWords \subseteq 0..LastIndex

\* the part of C14 the code keeps: an index of wrongWords is that of the
\* word in progress or of a committed entry
C14_WrongWithinCommitted ==
  \A i \in wrongWords : i = currentWordIndex \/ i < Len(typedWordsArray)

\* C15: currentWordIndex is 0 before the first event, changes only by +1 and
\* only on a space keydown, never decreases within a session in any backspace
\* mode, and stays within 0 .. the number of reference words.
C15_IndexOnlyAdvances ==
  /\ [](lastEvent = NoEvent => currentWordIndex = 0)
  /\ [](0 <= currentWordIndex /\ currentWordIndex <= Len(words))
  /\ [][~ResetStep =>
          \/ currentWordIndex' = currentWordIndex
          \/ /\ currentWordIndex' = currentWordIndex + 1
             /\ KeyStep /\ lastEvent'.key = Space]_vars

\* a deletion in the full mode has removed the delimiter of the committed
\* first word, and the index is still 1
C15_Witness ==
  /\ backspaceMode = "full" /\ Running /\ lastEvent.kind = "change"
  /\ currentWordIndex = 1 /\ Len(typedWordsArray) = 1
  /\ ~Includes(userInput, Space)

\* C16: typedWordsArray is append-only within a session: an event leaves it
\* as it is or appends one entry, only a space keydown appends, and every
\* space keydown appends exactly the buffer of the word in progress.
C16_TypedWordsAppendOnly ==
  [][~ResetStep =>
       IF KeyStep /\ lastEvent'.key = Space
       THEN typedWordsArray' = Append(typedWordsArray, currentTypingWord)
       ELSE typedWordsArray' = typedWordsArray]_vars

\* a deletion in the full mode has emptied the typed text, the committed
\* first word included, and the committed entry is still there
C16_Witness ==
  /\ backspaceMode = "full" /\ Running /\ lastEvent.kind = "change"
  /\ userInput = <<>> /\ typedWordsArray = << <<"b">> >>

\* the reference text is empty or whitespace-only, or the time limit is not
\* positive
InvalidConfiguration ==
  \/ \A i \in 1..Len(words) : words[i] = <<>>
  \/ timeLimit <= 0

\* C17: a test with an invalid configuration yields no session that becomes
\* Running or Finished.
C17_InvalidConfigNeverRuns ==
  InvalidConfiguration => ~isActive /\ ~isFinished

\* C18: once the session is Running it is eventually Finished; a tick lowers
\* timeLeft by exactly 1, timeLeft stays within 0 .. the time limit, and the
\* step in which timeLeft reaches 0 completes the session, whatever keydowns
\* and buffer changes come between the ticks.
C18_TimeoutLiveness ==
  /\ Running ~> isFinished
  /\ [](0 <= timeLeft /\ timeLeft <= timeLimit)
  /\ [][lastEvent'.kind = "tick" => timeLeft' = timeLeft - 1]_vars
  /\ [][(timeLeft > 0 /\ timeLeft' = 0) => isFinished' /\ Len(delivered') = 1]_vars

\* finished by the timeout after keydowns and buffer changes
C18_Witness ==
  /\ isFinished /\ timeLeft = 0 /\ lastEvent.kind = "tick"
  /\ Len(delivered) = 1 /\ delivered[1].timeTaken = LongTimeLimit
  /\ Len(typedWordsArray) = 1 /\ currentTypingWord # <<>>
  /\ typedKeystrokes = MaxKeys

\* a buffer change that handleInputChange has taken
AcceptedChange ==
  lastEvent'.kind = "change" /\ ~isFinished /\ Len(userInput') = lastEvent'.len

\* len + 1 for every committed word equal to the reference word of its index
CommittedCredit(typed, ws) ==
  SumLen([i \in 1..Len(typed) |->
            IF i <= Len(ws) /\ typed[i] = ws[i] THEN Append(typed[i], Space) ELSE <<>>])

\* the positions at which the buffer and the reference word agree
MatchingPositions(buffer, expected) ==
  Cardinality({i \in 1..Min(Len(buffer), Len(expected)) : buffer[i] = expected[i]})

\* C19: after every accepted buffer change correctKeystrokes is the sum, over
\* the committed words, of the word's length + 1 when it equals its reference
\* word, plus the number of positions at which the buffer agrees with the
\* current reference word, whatever the counter was before.
C19_FullRecompute ==
  [][AcceptedChange =>
       correctKeystrokes' =
         CommittedCredit(typedWordsArray', words)
         + MatchingPositions(currentTypingWord', WordAt(words, currentWordIndex'))]_vars

\* the part of C19 the code keeps: the same while every committed word has
\* a reference word
C19_FullRecomputeWithinReference ==
  [][(AcceptedChange /\ Len(typedWordsArray) <= Len(words)) =>
       correctKeystrokes' =
         CommittedCredit(typedWordsArray', words)
         + MatchingPositions(currentTypingWord', WordAt(words, currentWordIndex'))]_vars

\* a keydown the handler stops at: a blocked Ctrl/Meta shortcut, or F5
BlockedKey ==
  \/ lastEvent'.ctrl /\ lastEvent'.key \in ShortcutKeys
  \/ lastEvent'.key = "F5"

\* the keydown that starts the session
StartingKey == Idle /\ lastEvent'.key # "Tab" /\ ~lastEvent'.ctrl

\* C20: from the keydown that starts the session on, that keydown included,
\* every accepted keydown adds exactly 1 to typedKeystrokes; a blocked
\* shortcut, F5 and a keydown after Finished add nothing.
C20_CountsAcceptedKeydowns ==
  [][lastEvent'.kind = "keydown" =>
       IF isFinished \/ BlockedKey
       THEN typedKeystrokes' = typedKeystrokes
       ELSE (Running \/ StartingKey) => typedKeystrokes' = typedKeystrokes + 1]_vars

\* the part of C20 the code keeps: a keydown adds 1 when the session is
\* Running already and the key is not blocked, and nothing otherwise
C20_CountsWhileRunning ==
  [][lastEvent'.kind = "keydown" =>
       IF Running /\ ~BlockedKey
       THEN typedKeystrokes' = typedKeystrokes + 1
       ELSE typedKeystrokes' = typedKeystrokes]_vars

\* the step in which the session becomes Finished
CompletionStep == ~isFinished /\ isFinished'

\* the committed words, followed by the buffer when it is non-empty and the
\* current word has no committed entry
WithImplicitCommit(typed, buffer, index) ==
  IF buffer # <<>> /\ Len(typed) <= index THEN Append(typed, buffer) ELSE typed

\* C21: at completion (timeout, submit or final-word completion) the typed
\* words of the result are the committed words followed by the buffer of the
\* word in progress when it is non-empty and was not committed by a space, and
\* the committed words alone otherwise.
C21_FinalImplicitCommit ==
  [][CompletionStep =>
       /\ Len(delivered') = 1
       /\ delivered'[1].typedWordsArray =
            WithImplicitCommit(typedWordsArray', currentTypingWord', currentWordIndex')]_vars

\* the part of C21 the code keeps: the same for a completion by timeout or
\* by the submit button
C21_ImplicitCommitAtTimeoutOrSubmit ==
  [][(CompletionStep /\ lastEvent'.kind \in {"tick", "submit"}) =>
       /\ Len(delivered') = 1
       /\ delivered'[1].typedWordsArray =
            WithImplicitCommit(typedWordsArray', currentTypingWord', currentWordIndex')]_vars

\* C22: in every result correctWords is the number of positions at which
\* the typed word equals the reference word, incorrectWords is typedWords
\* less correctWords, and accuracy is correctWords / typedWords * 100 to two
\* decimals (0 with no typed word), so within 0 .. 100.
C22_WordLevelScoring ==
  \A k \in 1..Len(delivered) :
    LET r == delivered[k]
        same == {i \in 1..Len(r.typedWordsArray) :
                   i <= Len(words) /\ r.typedWordsArray[i] = words[i]}
    IN /\ r.typedWords = Len(r.typedWordsArray)
       /\ r.correctWords = Cardinality(same)
       /\ r.incorrectWords = r.typedWords - r.correctWords
       /\ r.accuracy = IF r.typedWords > 0
                       THEN (20000 * r.correctWords + r.typedWords)
                              \div (2 * r.typedWords)
                       ELSE 0
       /\ 0 <= r.accuracy /\ r.accuracy <= 10000

\* a result with two typed words, the second of them wrong: accuracy 50.00
C22_Witness ==
  /\ Len(delivered) = 1 /\ delivered[1].typedWords = 2
  /\ delivered[1].correctWords = 1 /\ delivered[1].accuracy = 5000
  /\ delivered[1].typedWordsArray = << <<"a">>, <<"a">> >>

\* C23: the elapsed time the two WPM values are divided by is at least 1
\* second: both are finite integers, computed with 1 second when the
\* completion comes in the same instant as the start.
C23_ElapsedClamp ==
  \A k \in 1..Len(delivered) :
    LET r == delivered[k]
        seconds == IF r.timeTaken < 1 THEN 1 ELSE r.timeTaken
    IN /\ r.wpm = Round(r.correctWords * 60, seconds)
       /\ r.grossWpm = Round(r.typedWords * 60, seconds)
       /\ r.wpm >= 0 /\ r.grossWpm >= 0

\* the part of C23 the code keeps: with a positive elapsed time both values
\* are the rounded quotients; with startTime null the time limit is divided by
C23_PositiveElapsed ==
  \A k \in 1..Len(delivered) :
    LET r == delivered[k]
    IN r.timeTaken > 0 =>
         /\ r.wpm = Round(r.correctWords * 60, r.timeTaken)
         /\ r.grossWpm = Round(r.typedWords * 60, r.timeTaken)
         /\ startTime = Null => r.timeTaken = timeLimit

\* the wpm of the result formula for the state as it is, with the present
\* time as the end: correct words / minutes since startTime
FinalFormulaWpm ==
  Round(CorrectWords(WithImplicitCommit(typedWordsArray, currentTypingWord,
                                        currentWordIndex), words) * 60000,
        (now - startTime) * 1000)

\* C24: while the session is Running (and time has passed since its start)
\* the wpm shown is what the formula of the final wpm gives for the state of
\* that moment.
C24_LiveWpmIsFinalFormula ==
  (Running /\ startTime # Null /\ now > startTime) => LiveWpm(State) = FinalFormulaWpm

\* C25: the backspace mode changes only while the session is Idle with the
\* settings panel shown, by the Select of that panel; no event changes it
\* while the session is Running or Finished.
C25_ModeFixedForSession ==
  [][backspaceMode' # backspaceMode =>
       /\ Idle /\ showSettings
       /\ lastEvent'.kind = "settings"
       /\ UNCHANGED <<isActive, isFinished, userInput, typedWordsArray>>]_vars

\* the mode set to word in the settings panel of an Idle session
C25_Witness ==
  /\ Idle /\ showSettings /\ lastEvent.kind = "settings"
  /\ backspaceMode = "word"

\* a deletion judged under the word mode in a Running session
C25_WitnessJudged ==
  /\ backspaceMode = "word" /\ Running /\ lastEvent.kind = "change"
  /\ lastEvent.len < Len(userInput) /\ currentWordIndex = 1
  /\ typedKeystrokes = MaxKeys

\* C26: a buffer change that delivers again the value the change before it
\* delivered, with the session Running before and after, leaves the buffer,
\* the typed text, correctKeystrokes and wrongWords as that change left them.
C26_ReprocessingIdempotent ==
  [][(/\ Running /\ lastEvent.kind = "change" /\ Len(userInput) = lastEvent.len
      /\ lastEvent'.kind = "change" /\ lastEvent'.same
      /\ Running') =>
       UNCHANGED <<currentTypingWord, userInput, correctKeystrokes, wrongWords>>]_vars

\* the same value delivered a second time, with a mistyped buffer and
\* correct keystrokes counted
C26_Witness ==
  /\ Running /\ lastEvent.kind = "change" /\ lastEvent.same
  /\ correctKeystrokes > 0 /\ currentWordIndex \in wrongWords

\* C27: in every result correctKeystrokes is at most typedKeystrokes, and
\* keystrokeAccuracy is within 0 .. 100.
C27_KeystrokeAccuracyIsPercentage ==
  \A k \in 1..Len(delivered) :
    /\ delivered[k].correctKeystrokes <= delivered[k].typedKeystrokes
    /\ 0 <= delivered[k].keystrokeAccuracy
    /\ delivered[k].keystrokeAccuracy <= 10000

\* C28: the client and the server agree on qualification: the row persisted
\* for a finished session passes the leaderboard filter exactly when the
\* client computed qualifiesForLeaderboard = true for that session.
C28_ClientServerAgree ==
  [][(CompletionStep /\ Len(test_results') = Len(test_results) + 1) =>
       (delivered'[Len(delivered')].qualifiesForLeaderboard
          <=> PassesLeaderboardFilter(test_results'[Len(test_results')]))]_vars

\* one direction alone: a session the client qualifies has a row that passes
C28_QualifiedRowPasses ==
  [][(CompletionStep /\ Len(test_results') = Len(test_results) + 1
        /\ delivered'[Len(delivered')].qualifiesForLeaderboard) =>
       PassesLeaderboardFilter(test_results'[Len(test_results')])]_vars

\* C29: for a finished session at most one row is inserted, none when no
\* user is signed in or the test is the custom text; the result is handed to
\* onComplete exactly once whether the insert succeeds, fails or is skipped;
\* the leaderboard is opened only when the insert succeeded and the session
\* qualifies.
C29_DeliveryAndPersistence ==
  /\ Len(test_results) <= Len(delivered)
  /\ Len(delivered) = (IF isFinished THEN 1 ELSE 0)
  /\ (user = Null \/ selectedTestId = CustomTextId) => test_results = <<>>
  /\ showLeaderboard =>
       /\ insertOutcome = "ok" /\ Len(test_results) = 1
       /\ delivered[1].qualifiesForLeaderboard

\* a qualifying session has timed out and its insert answered with an error:
\* the result is delivered, no row is stored, the leaderboard stays closed
C29_Witness ==
  /\ isFinished /\ lastEvent.kind = "tick"
  /\ user # Null /\ selectedTestId # CustomTextId /\ insertOutcome = "error"
  /\ Len(delivered) = 1 /\ delivered[1].qualifiesForLeaderboard
  /\ test_results = <<>> /\ ~showLeaderboard

\* a qualifying session is stored and opens the leaderboard
C29_WitnessSaved ==
  /\ isFinished /\ Len(delivered) = 1 /\ Len(test_results) = 1 /\ showLeaderboard

\* a session of the custom text is delivered and not stored
C29_WitnessSkipped ==
  /\ isFinished /\ selectedTestId = CustomTextId /\ user # Null
  /\ Len(delivered) = 1 /\ test_results = <<>>

\* C30: an Idle session is pristine: the typed text and the buffer are
\* empty, typedWordsArray and wrongWords are empty and both keystroke
\* counters are 0; no text enters the buffer before a keydown has made the
\* session Running.
C30_IdlePristine ==
  Idle =>
    /\ userInput = <<>> /\ currentTypingWord = <<>>
    /\ typedWordsArray = <<>> /\ wrongWords = {}
    /\ typedKeystrokes = 0 /\ correctKeystrokes = 0

\* what a key event leaves of it: keydowns alone put no text in the buffer
\* of an Idle session
C30_IdleKeydownsLeaveBufferEmpty ==
  [][(Idle /\ lastEvent'.kind = "keydown" /\ Idle') =>
       UNCHANGED <<userInput, currentTypingWord, typedWordsArray, wrongWords,
                   typedKeystrokes, correctKeystrokes>>]_vars

====
